---- MODULE Spec2Model ----
(***************************************************************************)
(* Position accounting and monthly portfolio reconstruction of the        *)
(* portfolio tracker (lib/tradeCalculations.ts).                           *)
(*                                                                         *)
(* Numbers.  The program computes in IEEE doubles; the model computes in   *)
(* exact rationals [n, d] (d > 0, lowest terms) plus the value NaN, which  *)
(* the program produces by 0/0.  Quantities are integers counted in lots   *)
(* of 1/QtyScale share, so that quantities below the program's thresholds  *)
(* (0.0001 and 0.001 share) exist in the model.  Prices, commissions and   *)
(* P&L are in dollars.                                                      *)
(***************************************************************************)
EXTENDS Integers, Sequences, FiniteSets, TLC

VARIABLES
    positions,      \* calculatePnL: symbol -> {quantity, avgPrice}, or absent
    tradesWithPnL,  \* calculatePnL: the output array built so far
    stats,          \* calculateStats: the returned TradeStats (once computed)
    pc,             \* "run" while calculatePnL's loop runs, "done" after calculateStats
    rawTransactions,   \* [...transactionPortfolioJson, ...closedTransactionsJson]
    allTransactions,   \* calculateMonthlyPortfolioHistory: the filtered, sorted records
    i,                 \* calculateMonthlyPortfolioHistory: index of the month being processed
    mpc,               \* "idle", "loop", "fetch" (awaiting the price batch) or "returned"
    currentPositions,  \* the month's replayed positions, by ticker
    priceMap,          \* the latest result of getBatchHistoricalPrices, by ticker
    history,           \* the MonthlyPortfolioHistory entries pushed so far
    progress,          \* the onProgress calls made so far
    failedMonths,      \* the months whose gateway request failed (error, timeout, non-OK)
    cancelRequested,   \* the caller no longer wants the result (the page went away)
    requests,          \* the gateway requests issued so far: month and tickerInfo
    cumulativePnLData  \* the CumulativePnLPoint series handed to the caller

ledgerVars == <<positions, tradesWithPnL, stats, pc>>

monthlyVars ==
    <<rawTransactions, allTransactions, i, mpc, currentPositions, priceMap, history, progress,
      failedMonths, cancelRequested, requests>>

vars == <<ledgerVars, monthlyVars, cumulativePnLData>>

----------------------------------------------------------------------------
(* Bounds and program constants *)

MaxTrades == 3          \* longest trade list fed to calculatePnL
MaxTxns == 2            \* most raw transaction records given to the monthly reconstruction
MaxMonths == 2          \* months 1 .. MaxMonths; the last one is the current month

EpsDen == 10000         \* 0.0001 = 1 / EpsDen : position-closed threshold
OpenDen == 1000         \* 0.001 = 1 / OpenDen : the monthly replay's open-position threshold
SanityLimit == 3000     \* |pnl| <= 3000 : calculateStats' sanity check
NegligibleDen == 100    \* 0.01 = 1 / NegligibleDen : calculateMonthlyPerformance's smallest counted |pnl|

QtyScale == 2 * EpsDen  \* lots per share: one lot is half the closed threshold

Shares(k) == k * QtyScale

----------------------------------------------------------------------------
(* Exact rational arithmetic with NaN *)

Abs(x) == IF x < 0 THEN -x ELSE x

Min(a, b) == IF a < b THEN a ELSE b

RECURSIVE GCD(_, _)
GCD(a, b) == IF b = 0 THEN a ELSE GCD(b, a % b)

NaN == [n |-> 0, d |-> 0]

IsNaN(x) == x.d = 0

\* n / d as a double would hold it: 0/0 is NaN
Frac(n, d) ==
    IF d = 0 THEN NaN
    ELSE LET g == GCD(Abs(n), Abs(d))
             s == IF d < 0 THEN -1 ELSE 1
         IN  [n |-> s * (n \div g), d |-> s * (d \div g)]

Num(k) == [n |-> k, d |-> 1]

Zero == Num(0)

FAdd(x, y) == IF IsNaN(x) \/ IsNaN(y) THEN NaN ELSE Frac(x.n * y.d + y.n * x.d, x.d * y.d)

FNeg(x) == IF IsNaN(x) THEN NaN ELSE [n |-> -x.n, d |-> x.d]

FSub(x, y) == FAdd(x, FNeg(y))

\* cross-reduced before multiplying, to keep the intermediate products small
FMul(x, y) ==
    IF IsNaN(x) \/ IsNaN(y) THEN NaN
    ELSE LET g1 == GCD(Abs(x.n), y.d)
             g2 == GCD(Abs(y.n), x.d)
         IN  Frac((x.n \div g1) * (y.n \div g2), (x.d \div g2) * (y.d \div g1))

\* x / y for y # 0;  0 / 0 is NaN (the program never divides a non-zero by zero)
FDiv(x, y) ==
    IF IsNaN(x) \/ IsNaN(y) \/ y.n = 0 THEN NaN
    ELSE FMul(x, Frac(y.d, y.n))

\* comparisons: every comparison with NaN is false, NaN !== 0 is true
FLt(x, y) == ~IsNaN(x) /\ ~IsNaN(y) /\ x.n * y.d < y.n * x.d

FLe(x, y) == ~IsNaN(x) /\ ~IsNaN(y) /\ x.n * y.d <= y.n * x.d

FGt(x, y) == FLt(y, x)

FAbs(x) == IF IsNaN(x) THEN NaN ELSE [n |-> Abs(x.n), d |-> x.d]

FNonZero(x) == IsNaN(x) \/ x.n # 0

\* a quantity of q lots, in shares
Qty(q) == Frac(q, QtyScale)

----------------------------------------------------------------------------
(* calculatePnL: the Position Ledger *)

Symbols == {"X", "Z"}

Absent == [here |-> FALSE, quantity |-> 0, avgPrice |-> Zero]

Pos(q, avg) == [here |-> TRUE, quantity |-> q, avgPrice |-> avg]

\* Math.abs(quantity) < 0.0001, quantity in lots
BelowEpsilon(q) == FLt(Qty(Abs(q)), Frac(1, EpsDen))

\* if (Math.abs(positions[symbol].quantity) < 0.0001) delete positions[symbol]
DeleteIfFlat(pos) == IF BelowEpsilon(pos.quantity) THEN Absent ELSE pos

\* if (!positions[symbol]) positions[symbol] = { quantity: 0, avgPrice: 0 }
OrEmpty(pos) == IF pos.here THEN pos ELSE Pos(0, Zero)

\* Compra while positions[symbol].quantity < 0
CompraOnShort(pos, trade) ==
    [pnl |-> FSub(FMul(FSub(pos.avgPrice, Num(trade.price)), Qty(Abs(trade.quantity))),
                  Num(trade.commission)),
     pos |-> DeleteIfFlat(Pos(pos.quantity + trade.quantity, pos.avgPrice))]

\* Compra otherwise: opening or adding to a long position
CompraOnLong(pos, trade) ==
    LET totalCost == FAdd(FMul(Num(pos.quantity), pos.avgPrice), Num(trade.quantity * trade.price))
        quantity  == pos.quantity + trade.quantity
    IN  [pnl |-> FNeg(Num(trade.commission)),
         pos |-> Pos(quantity, FDiv(totalCost, Num(quantity)))]

\* CierreOnPosition, forgetting the commission
CierreOnPositionNoCommission(pos, trade) ==
    LET quantityToClose == Abs(trade.quantity)
    IN  IF pos.quantity > 0
        THEN [pnl |-> FMul(FSub(Num(trade.price), pos.avgPrice), Qty(quantityToClose)),
              pos |-> DeleteIfFlat(Pos(pos.quantity - quantityToClose, pos.avgPrice))]
        ELSE [pnl |-> FMul(FSub(pos.avgPrice, Num(trade.price)), Qty(quantityToClose)),
              pos |-> DeleteIfFlat(Pos(pos.quantity + quantityToClose, pos.avgPrice))]

\* Cierre while positions[symbol] exists
CierreOnPosition(pos, trade) ==
    LET quantityToClose == Abs(trade.quantity)
    IN  IF pos.quantity > 0
        THEN [pnl |-> FSub(FMul(FSub(Num(trade.price), pos.avgPrice), Qty(quantityToClose)),
                           Num(trade.commission)),
              pos |-> DeleteIfFlat(Pos(pos.quantity - quantityToClose, pos.avgPrice))]
        ELSE [pnl |-> FSub(FMul(FSub(pos.avgPrice, Num(trade.price)), Qty(quantityToClose)),
                           Num(trade.commission)),
              pos |-> DeleteIfFlat(Pos(pos.quantity + quantityToClose, pos.avgPrice))]

\* CierreNoPosition, charging the commission as the other branches do
CierreNoPositionCharged(pos, trade) == [pnl |-> FNeg(Num(trade.commission)), pos |-> pos]

\* Cierre while positions[symbol] does not exist
CierreNoPosition(pos, trade) == [pnl |-> Zero, pos |-> pos]

\* Venta while positions[symbol].quantity > 0
VentaOnLong(pos, trade) ==
    [pnl |-> FSub(FMul(FSub(Num(trade.price), pos.avgPrice), Qty(Abs(trade.quantity))),
                  Num(trade.commission)),
     pos |-> DeleteIfFlat(Pos(pos.quantity - Abs(trade.quantity), pos.avgPrice))]

\* Venta otherwise: opening or adding to a short position
VentaOnShort(pos, trade) ==
    LET currentValue  == FMul(Num(Abs(pos.quantity)), pos.avgPrice)
        newValue      == Num(Abs(trade.quantity) * trade.price)
        totalQuantity == Abs(pos.quantity) + Abs(trade.quantity)
    IN  [pnl |-> FNeg(Num(trade.commission)),
         pos |-> Pos(pos.quantity - Abs(trade.quantity),
                     FDiv(FAdd(currentValue, newValue), Num(totalQuantity)))]

\* which branch of the loop body a trade takes
Branch(pos, trade) ==
    CASE trade.side = "Compra" -> IF OrEmpty(pos).quantity < 0 THEN "CompraOnShort" ELSE "CompraOnLong"
      [] trade.side = "Cierre" -> IF pos.here THEN "CierreOnPosition" ELSE "CierreNoPosition"
      [] trade.side = "Venta"  -> IF OrEmpty(pos).quantity > 0 THEN "VentaOnLong" ELSE "VentaOnShort"

\* one iteration of the loop, on the traded symbol's position
ProcessTrade(pos, trade) ==
    CASE Branch(pos, trade) = "CompraOnShort"    -> CompraOnShort(OrEmpty(pos), trade)
      [] Branch(pos, trade) = "CompraOnLong"     -> CompraOnLong(OrEmpty(pos), trade)
      [] Branch(pos, trade) = "CierreOnPosition" -> CierreOnPosition(pos, trade)
      [] Branch(pos, trade) = "CierreNoPosition" -> CierreNoPosition(pos, trade)
      [] Branch(pos, trade) = "VentaOnLong"      -> VentaOnLong(OrEmpty(pos), trade)
      [] Branch(pos, trade) = "VentaOnShort"     -> VentaOnShort(OrEmpty(pos), trade)

\* tradesWithPnL.push({ ...trade, pnl })
WithPnL(trade, pnl) ==
    [symbol |-> trade.symbol, side |-> trade.side, quantity |-> trade.quantity,
     price |-> trade.price, commission |-> trade.commission, date |-> trade.date, pnl |-> pnl]

----------------------------------------------------------------------------
(* The trades fed to the ledger.  Quantities carry the sign parseFirebaseJson
   gives them: Compra >= 0, Venta and Cierre <= 0. *)

Sides == {"Compra", "Cierre", "Venta"}

Signed(side, q) == IF side = "Compra" THEN q ELSE -q

\* trade.date, counted in months: the trades entered at 40 and at 100 are dated
\* in month 1, the others in month 2
DateAtPrice(price) == IF price \in {40, 100} THEN 1 ELSE 2

Trade(symbol, side, q, price, commission) ==
    [symbol |-> symbol, side |-> side, quantity |-> Signed(side, q),
     price |-> price, commission |-> commission, date |-> DateAtPrice(price)]

\* X trades in small lots: 1 lot is below the closed threshold, 3 lots above it
LotTrades ==
    { Trade("X", side, q, p, c) : side \in Sides, q \in {1, 3}, p \in {40, 50}, c \in {0, 1} }
    \cup { Trade("X", side, 0, 40, 0) : side \in Sides }

\* Z trades in whole shares: the transactions of the specification's scenarios
ShareTrades ==
    { Trade("Z", "Compra", Shares(10), 100, 1), Trade("Z", "Cierre", Shares(10), 150, 1),
      Trade("Z", "Venta", Shares(5), 50, 0),    Trade("Z", "Compra", Shares(8), 40, 0) }

TradeInputs == LotTrades \cup ShareTrades

----------------------------------------------------------------------------
(* calculateStats *)

RECURSIVE SumPnL(_)
SumPnL(s) == IF s = <<>> THEN Zero ELSE FAdd(s[1].pnl, SumPnL(Tail(s)))

RECURSIVE MaxPnL(_)
MaxPnL(s) ==
    IF Len(s) = 1 THEN s[1].pnl
    ELSE LET m == MaxPnL(Tail(s)) IN IF FGt(s[1].pnl, m) THEN s[1].pnl ELSE m

RECURSIVE MinPnL(_)
MinPnL(s) ==
    IF Len(s) = 1 THEN s[1].pnl
    ELSE LET m == MinPnL(Tail(s)) IN IF FLt(s[1].pnl, m) THEN s[1].pnl ELSE m

\* IsClosingTrade, forgetting to look at the side
IsClosingTradeAnySide(t) == FNonZero(t.pnl) /\ FLe(FAbs(t.pnl), Num(SanityLimit))

\* the filter that selects closingTrades
IsClosingTrade(t) ==
    LET hasValidPnL   == t.side \in {"Cierre", "Venta"} /\ FNonZero(t.pnl)
        reasonablePnL == FLe(FAbs(t.pnl), Num(SanityLimit))
    IN  hasValidPnL /\ reasonablePnL

IsWinning(t) == FGt(t.pnl, Zero)

IsLosing(t) == FLt(t.pnl, Zero)

\* calculateStats, dividing by totalTrades without the totalTrades > 0 tests
calculateStatsUnguarded(withPnL) ==
    LET closingTrades == SelectSeq(withPnL, IsClosingTrade)
        totalPnL      == SumPnL(closingTrades)
        winningTrades == SelectSeq(closingTrades, IsWinning)
        losingTrades  == SelectSeq(closingTrades, IsLosing)
        totalTrades   == Len(closingTrades)
    IN  [totalPnL      |-> totalPnL,
         totalTrades   |-> totalTrades,
         winningTrades |-> Len(winningTrades),
         losingTrades  |-> Len(losingTrades),
         winRate       |-> FMul(Frac(Len(winningTrades), totalTrades), Num(100)),
         averageWin    |-> IF Len(winningTrades) > 0
                           THEN FDiv(SumPnL(winningTrades), Num(Len(winningTrades))) ELSE Zero,
         averageLoss   |-> IF Len(losingTrades) > 0
                           THEN FDiv(SumPnL(losingTrades), Num(Len(losingTrades))) ELSE Zero,
         largestWin    |-> IF Len(winningTrades) > 0 THEN MaxPnL(winningTrades) ELSE Zero,
         largestLoss   |-> IF Len(losingTrades) > 0 THEN MinPnL(losingTrades) ELSE Zero,
         averageTradePnL |-> FDiv(totalPnL, Num(totalTrades))]

\* calculateStats over calculatePnL's output
calculateStats(withPnL) ==
    LET closingTrades == SelectSeq(withPnL, IsClosingTrade)
        totalPnL      == SumPnL(closingTrades)
        winningTrades == SelectSeq(closingTrades, IsWinning)
        losingTrades  == SelectSeq(closingTrades, IsLosing)
        totalTrades   == Len(closingTrades)
    IN  [totalPnL      |-> totalPnL,
         totalTrades   |-> totalTrades,
         winningTrades |-> Len(winningTrades),
         losingTrades  |-> Len(losingTrades),
         winRate       |-> IF totalTrades > 0
                           THEN FMul(Frac(Len(winningTrades), totalTrades), Num(100)) ELSE Zero,
         averageWin    |-> IF Len(winningTrades) > 0
                           THEN FDiv(SumPnL(winningTrades), Num(Len(winningTrades))) ELSE Zero,
         averageLoss   |-> IF Len(losingTrades) > 0
                           THEN FDiv(SumPnL(losingTrades), Num(Len(losingTrades))) ELSE Zero,
         largestWin    |-> IF Len(winningTrades) > 0 THEN MaxPnL(winningTrades) ELSE Zero,
         largestLoss   |-> IF Len(losingTrades) > 0 THEN MinPnL(losingTrades) ELSE Zero,
         averageTradePnL |-> IF totalTrades > 0 THEN FDiv(totalPnL, Num(totalTrades)) ELSE Zero]

NoStats == calculateStats(<<>>)

----------------------------------------------------------------------------
(* calculateMonthlyPerformance *)

\* the filter that selects calculateMonthlyPerformance's closingTrades
IsMonthlyClosingTrade(t) ==
    LET hasValidPnL   == /\ t.side \in {"Cierre", "Venta"}
                         /\ FNonZero(t.pnl)
                         /\ FGt(FAbs(t.pnl), Frac(1, NegligibleDen))
        reasonablePnL == FLe(FAbs(t.pnl), Num(SanityLimit))
    IN  hasValidPnL /\ reasonablePnL

\* new Date(trade.date): the "YYYY-MM" key of a trade, all of them in 2024
MonthKeyOf(t) == [year |-> 2024, month |-> t.date]

\* a.month.localeCompare(b.month) < 0 on zero-padded keys
KeyBefore(a, b) == a.year < b.year \/ (a.year = b.year /\ a.month < b.month)

RECURSIVE TradesInMonth(_, _)
\* the closing trades whose key is the given month
TradesInMonth(closing, key) ==
    IF closing = <<>> THEN <<>>
    ELSE (IF MonthKeyOf(Head(closing)) = key THEN <<Head(closing)>> ELSE <<>>)
         \o TradesInMonth(Tail(closing), key)

RECURSIVE SortedKeys(_)
\* the keys of monthlyData in ascending order
SortedKeys(keys) ==
    IF keys = {} THEN <<>>
    ELSE LET first == CHOOSE k \in keys : \A other \in keys \ {k} : KeyBefore(k, other)
         IN  <<first>> \o SortedKeys(keys \ {first})

\* calculateMonthlyPerformance over calculatePnL's output
calculateMonthlyPerformance(withPnL) ==
    LET closingTrades == SelectSeq(withPnL, IsMonthlyClosingTrade)
        keys          == SortedKeys({ MonthKeyOf(closingTrades[k]) : k \in 1 .. Len(closingTrades) })
    IN  [k \in 1 .. Len(keys) |->
            LET inMonth == TradesInMonth(closingTrades, keys[k])
            IN  [month |-> keys[k], trades |-> Len(inMonth), pnl |-> SumPnL(inMonth)]]

----------------------------------------------------------------------------
(* parseFirebaseJson and the filter/sort of calculateMonthlyPortfolioHistory *)

TARGET_PORTFOLIO_ID == "Kq0kpiyAuukdS2l4uvDb"

Months == 1 .. MaxMonths

\* new Date(): the current month is the last month of the model
CurrentMonth == MaxMonths

\* a FirebaseTransaction; created_time is counted in months
Raw(ticker, operation, amount, price, time, portfolio) ==
    [ticker |-> ticker, operation |-> operation, amount |-> amount, price |-> price,
     created_time |-> time, id_portfolio |-> portfolio]

\* the month a timestamp falls in
MonthOf(time) == time

RECURSIVE InsertByTimeBeforeEqual(_, _)
\* InsertByTime, placing t before the elements of its own time
InsertByTimeBeforeEqual(sorted, t) ==
    IF sorted = <<>> THEN <<t>>
    ELSE IF Head(sorted).created_time < t.created_time
         THEN <<Head(sorted)>> \o InsertByTimeBeforeEqual(Tail(sorted), t)
         ELSE <<t>> \o sorted

RECURSIVE InsertByTime(_, _)
\* t placed after every element that is not later than it
InsertByTime(sorted, t) ==
    IF sorted = <<>> THEN <<t>>
    ELSE IF Head(sorted).created_time <= t.created_time
         THEN <<Head(sorted)>> \o InsertByTime(Tail(sorted), t)
         ELSE <<t>> \o sorted

RECURSIVE SortByTime(_)
\* Array.prototype.sort by created_time: stable
SortByTime(s) ==
    IF s = <<>> THEN <<>>
    ELSE InsertByTime(SortByTime(SubSeq(s, 1, Len(s) - 1)), s[Len(s)])

\* InTargetPortfolio, letting every account through
InAnyPortfolio(t) == t.id_portfolio = t.id_portfolio

\* getPortfolioId(t.id_portfolio) === TARGET_PORTFOLIO_ID
InTargetPortfolio(t) == t.id_portfolio = TARGET_PORTFOLIO_ID

\* the filtered, sorted allTransactions of calculateMonthlyPortfolioHistory
AllTransactions(raw) == SortByTime(SelectSeq(raw, InTargetPortfolio))

\* ParsedTrade, trusting the sign of the source amount
ParsedTradeKeepingSign(t) ==
    [symbol |-> t.ticker, side |-> t.operation,
     quantity |-> IF t.operation \in {"Venta", "Cierre"} THEN -t.amount ELSE t.amount,
     price |-> t.price, commission |-> 0, date |-> t.created_time]

\* parseFirebaseJson's Trade for one record, as calculatePnL reads it
ParsedTrade(t) ==
    [symbol |-> t.ticker, side |-> t.operation,
     quantity |-> IF t.operation \in {"Venta", "Cierre"} THEN -Abs(t.amount) ELSE Abs(t.amount),
     price |-> t.price, commission |-> 0, date |-> t.created_time]

\* parseFirebaseJson: filter, convert, sort by (date, time)
parseFirebaseJson(raw) ==
    LET kept == AllTransactions(raw)
    IN  [k \in 1 .. Len(kept) |-> ParsedTrade(kept[k])]

RECURSIVE calculatePnL(_, _)
\* calculatePnL's position map after the loop has run over trades
calculatePnL(pos, trades) ==
    IF trades = <<>> THEN pos
    ELSE LET trade == Head(trades)
         IN  calculatePnL([pos EXCEPT ![trade.symbol] = ProcessTrade(pos[trade.symbol], trade).pos],
                          Tail(trades))

----------------------------------------------------------------------------
(* calculateMonthlyPortfolioHistory: the replay of one month *)

NoHolding == [here |-> FALSE, shares |-> 0, totalCost |-> Zero, isShort |-> FALSE]

Holding(shares, totalCost, isShort) ==
    [here |-> TRUE, shares |-> shares, totalCost |-> totalCost, isShort |-> isShort]

\* if (!currentPositions[id_asset]) currentPositions[id_asset] = { shares: 0, totalCost: 0, ... }
OrNew(position) == IF position.here THEN position ELSE Holding(0, Zero, FALSE)

\* Math.abs(position.shares) < 0.001
BelowOpenThreshold(shares) == FLt(Qty(Abs(shares)), Frac(1, OpenDen))

\* Math.abs(position.shares) > 0.001
IsOpen(position) == position.here /\ FGt(Qty(Abs(position.shares)), Frac(1, OpenDen))

ReplayCompra(position, t) ==
    IF position.shares < 0
    THEN LET sharesToClose == Min(Abs(position.shares), t.amount)
             avgCost       == IF Abs(position.shares) > 0
                              THEN FDiv(position.totalCost, Num(Abs(position.shares))) ELSE Zero
             shares        == position.shares + sharesToClose
             totalCost     == FSub(position.totalCost, FMul(Num(sharesToClose), avgCost))
         IN  IF t.amount > sharesToClose
             THEN LET remainingShares == t.amount - sharesToClose
                  IN  Holding(shares + remainingShares,
                              FAdd(totalCost, Num(remainingShares * t.price)), FALSE)
             ELSE IF BelowOpenThreshold(shares)
                  THEN Holding(shares, Zero, FALSE)
                  ELSE Holding(shares, totalCost, position.isShort)
    ELSE Holding(position.shares + t.amount,
                 FAdd(position.totalCost, Num(t.amount * t.price)), FALSE)

ReplayVenta(position, t) ==
    IF position.shares > 0
    THEN LET sharesToClose == Min(position.shares, t.amount)
             avgCost       == IF position.shares > 0
                              THEN FDiv(position.totalCost, Num(position.shares)) ELSE Zero
             shares        == position.shares - sharesToClose
             totalCost     == FSub(position.totalCost, FMul(Num(sharesToClose), avgCost))
         IN  IF t.amount > sharesToClose
             THEN LET remainingShares == t.amount - sharesToClose
                  IN  Holding(shares - remainingShares,
                              FAdd(totalCost, Num(remainingShares * t.price)), TRUE)
             ELSE IF BelowOpenThreshold(shares)
                  THEN Holding(shares, Zero, FALSE)
                  ELSE Holding(shares, totalCost, position.isShort)
    ELSE Holding(position.shares - t.amount,
                 FAdd(position.totalCost, Num(t.amount * t.price)), TRUE)

\* Cierre: close position completely
ReplayCierre(position, t) == Holding(0, Zero, FALSE)

ReplayTransaction(position, t) ==
    CASE t.operation = "Compra" -> ReplayCompra(OrNew(position), t)
      [] t.operation = "Venta"  -> ReplayVenta(OrNew(position), t)
      [] t.operation = "Cierre" -> ReplayCierre(OrNew(position), t)

RECURSIVE Replay(_, _)
\* the loop over transactionsThisMonth, from empty currentPositions
Replay(held, txns) ==
    IF txns = <<>> THEN held
    ELSE LET t == Head(txns)
         IN  Replay([held EXCEPT ![t.ticker] = ReplayTransaction(held[t.ticker], t)], Tail(txns))

\* transactionsThisMonth: transactionDate <= monthEnd
UpToMonth(txns, month) == SelectSeq(txns, LAMBDA t : MonthOf(t.created_time) <= month)

\* generateMonthRange(startDate, endDate)
MonthRange(txns) ==
    LET first == MonthOf(txns[1].created_time)
    IN  [k \in 1 .. (CurrentMonth - first + 1) |-> first + k - 1]

OpenTickers(held) == { s \in Symbols : IsOpen(held[s]) }

\* tickerInfo, with one entry for every transaction of an open position
TickerInfoPerTransaction(held, txns) ==
    LET ofOpen == SelectSeq(txns, LAMBDA t : IsOpen(held[t.ticker]))
    IN  [k \in 1 .. Len(ofOpen) |-> ofOpen[k].ticker]

RECURSIVE TickerInfo(_, _)
\* tickerInfo: the tickers of the open positions, each once (tickerInfoMap is a
\* Map keyed by ticker), in the order the positions were first traded
TickerInfo(held, txns) ==
    IF txns = <<>> THEN <<>>
    ELSE LET before == TickerInfo(held, SubSeq(txns, 1, Len(txns) - 1))
             ticker == txns[Len(txns)].ticker
         IN  IF IsOpen(held[ticker]) /\ \A k \in 1 .. Len(before) : before[k] # ticker
             THEN Append(before, ticker)
             ELSE before

\* position.totalCost / Math.abs(position.shares)
AvgPrice(position) == FDiv(position.totalCost, Num(Abs(position.shares)))

\* one MonthlyAsset
MonthlyAsset(ticker, position, priceClose) ==
    LET avgPrice == AvgPrice(position)
    IN  [asset       |-> ticker,
         shares      |-> Abs(position.shares),
         avg_price   |-> avgPrice,
         price_close |-> priceClose,
         value       |-> FMul(Qty(Abs(position.shares)), Num(priceClose)),
         profit_loss |-> IF position.isShort
                         THEN FMul(FSub(avgPrice, Num(priceClose)), Qty(Abs(position.shares)))
                         ELSE FMul(FSub(Num(priceClose), avgPrice), Qty(Abs(position.shares)))]

\* MonthlyAssets, without the priceClose > 0 test
MonthlyAssetsAnyPrice(held, prices) ==
    { MonthlyAsset(s, held[s], prices[s]) : s \in OpenTickers(held) }

\* monthlyAssets: the open positions whose price came back positive
MonthlyAssets(held, prices) ==
    { MonthlyAsset(s, held[s], prices[s]) : s \in { o \in OpenTickers(held) : prices[o] > 0 } }

RECURSIVE SumOver(_, _)
SumOver(assets, field) ==
    IF assets = {} THEN Zero
    ELSE LET a == CHOOSE x \in assets : TRUE
         IN  FAdd(a[field], SumOver(assets \ {a}, field))

Snapshot(month, assets) ==
    [month |-> month, assets |-> assets,
     portfolio_value |-> SumOver(assets, "value"),
     portfolio_pl    |-> SumOver(assets, "profit_loss")]

----------------------------------------------------------------------------
(* calculateCumulativePnL and calculateMarkToMarketCumulativePnL *)

RECURSIVE TradesWithPnL(_, _)
\* calculatePnL's returned array: every trade with its pnl
TradesWithPnL(pos, trades) ==
    IF trades = <<>> THEN <<>>
    ELSE LET trade == Head(trades)
             r     == ProcessTrade(pos[trade.symbol], trade)
         IN  <<WithPnL(trade, r.pnl)>>
             \o TradesWithPnL([pos EXCEPT ![trade.symbol] = r.pos], Tail(trades))

RECURSIVE RunningValues(_, _)
\* cumulative += trade.pnl; points.push({ date, value: cumulative })
RunningValues(withPnL, cumulative) ==
    IF withPnL = <<>> THEN <<>>
    ELSE LET value == FAdd(cumulative, Head(withPnL).pnl)
         IN  <<[value |-> value]>> \o RunningValues(Tail(withPnL), value)

\* calculateCumulativePnL, without the accumulation: each point is the trade's own pnl
calculateCumulativePnLPerTrade(withPnL) ==
    [k \in 1 .. Len(withPnL) |-> [value |-> withPnL[k].pnl]]

\* calculateCumulativePnL over calculatePnL's output (every trade has a pnl);
\* a point's date is the trade's date, which the model's trades do not carry
calculateCumulativePnL(withPnL) == RunningValues(withPnL, Zero)

\* new Date(year, month, 0).getDate(): the last day of the month
LastDay(year, month) ==
    IF month = 2
    THEN (IF (year % 4 = 0 /\ year % 100 # 0) \/ year % 400 = 0 THEN 29 ELSE 28)
    ELSE IF month \in {4, 6, 9, 11} THEN 30 ELSE 31

\* the month key "YYYY-MM" of model month m: month m of 2024
MonthKey(m) == [year |-> 2024, month |-> m]

\* `${month}/${lastDay}/${year}`
DateStr(key) == <<key.month, LastDay(key.year, key.month), key.year>>

\* the equity curve, each point adding up the months so far
MarkToMarketPointsAccumulated(hist) ==
    [k \in 1 .. Len(hist) |->
        [date  |-> DateStr(MonthKey(hist[k].month)),
         value |-> SumPnL([j \in 1 .. k |-> [pnl |-> hist[j].portfolio_pl]])]]

\* the equity curve of calculateMarkToMarketCumulativePnL: one point per monthData
MarkToMarketPoints(hist) ==
    [k \in 1 .. Len(hist) |->
        [date  |-> DateStr(MonthKey(hist[k].month)),
         value |-> hist[k].portfolio_pl]]

----------------------------------------------------------------------------
(* The ledger as a state machine: one action per branch of the loop body *)

LedgerInit ==
    /\ positions = [s \in Symbols |-> Absent]
    /\ tradesWithPnL = <<>>
    /\ stats = NoStats
    /\ pc = "run"
    /\ cumulativePnLData = <<>>

\* the monthly reconstruction has not been called
MonthlyIdle ==
    /\ rawTransactions = <<>>
    /\ allTransactions = <<>>
    /\ i = 0
    /\ mpc = "idle"
    /\ currentPositions = [s \in Symbols |-> NoHolding]
    /\ priceMap = [s \in Symbols |-> 0]
    /\ history = <<>>
    /\ progress = <<>>
    /\ failedMonths = {}
    /\ cancelRequested = FALSE
    /\ requests = <<>>

Init == LedgerInit /\ MonthlyIdle

TradesOf(side) == { trade \in TradeInputs : trade.side = side }

\* the end of the loop body, were the position map not keyed by symbol
RecordOnEverySymbol(trade, r) ==
    /\ positions' = [s \in Symbols |-> r.pos]
    /\ tradesWithPnL' = Append(tradesWithPnL, WithPnL(trade, r.pnl))
    /\ UNCHANGED <<stats, pc, monthlyVars, cumulativePnLData>>

\* the end of the loop body: the position is stored and the outcome pushed
Record(trade, r) ==
    /\ positions' = [positions EXCEPT ![trade.symbol] = r.pos]
    /\ tradesWithPnL' = Append(tradesWithPnL, WithPnL(trade, r.pnl))
    /\ UNCHANGED <<stats, pc, monthlyVars, cumulativePnLData>>

Running == pc = "run" /\ Len(tradesWithPnL) < MaxTrades

BuyToCover ==
    /\ Running
    /\ \E trade \in TradesOf("Compra") :
          /\ Branch(positions[trade.symbol], trade) = "CompraOnShort"
          /\ Record(trade, ProcessTrade(positions[trade.symbol], trade))

BuyLong ==
    /\ Running
    /\ \E trade \in TradesOf("Compra") :
          /\ Branch(positions[trade.symbol], trade) = "CompraOnLong"
          /\ Record(trade, ProcessTrade(positions[trade.symbol], trade))

ClosePosition ==
    /\ Running
    /\ \E trade \in TradesOf("Cierre") :
          /\ Branch(positions[trade.symbol], trade) = "CierreOnPosition"
          /\ Record(trade, ProcessTrade(positions[trade.symbol], trade))

CloseNothing ==
    /\ Running
    /\ \E trade \in TradesOf("Cierre") :
          /\ Branch(positions[trade.symbol], trade) = "CierreNoPosition"
          /\ Record(trade, ProcessTrade(positions[trade.symbol], trade))

SellLong ==
    /\ Running
    /\ \E trade \in TradesOf("Venta") :
          /\ Branch(positions[trade.symbol], trade) = "VentaOnLong"
          /\ Record(trade, ProcessTrade(positions[trade.symbol], trade))

SellShort ==
    /\ Running
    /\ \E trade \in TradesOf("Venta") :
          /\ Branch(positions[trade.symbol], trade) = "VentaOnShort"
          /\ Record(trade, ProcessTrade(positions[trade.symbol], trade))

\* the trade list is exhausted: calculateStats aggregates calculatePnL's output
ComputeStats ==
    /\ pc = "run"
    /\ stats' = calculateStats(tradesWithPnL)
    /\ pc' = "done"
    /\ UNCHANGED <<positions, tradesWithPnL, monthlyVars, cumulativePnLData>>

\* the realized-only series over the same trades: calculateCumulativePnL
FallbackSeries ==
    /\ pc = "done"
    /\ cumulativePnLData' = calculateCumulativePnL(tradesWithPnL)
    /\ pc' = "charted"
    /\ UNCHANGED <<positions, tradesWithPnL, stats, monthlyVars>>

Next ==
    \/ BuyToCover
    \/ BuyLong
    \/ ClosePosition
    \/ CloseNothing
    \/ SellLong
    \/ SellShort
    \/ ComputeStats
    \/ FallbackSeries

Spec == Init /\ [][Next]_vars

----------------------------------------------------------------------------
(* calculateMonthlyPortfolioHistory as a state machine.  One loop iteration is
   one step when the month has no open position, and two steps (up to the await
   of the price batch, and from its result on) when it has. *)

\* X in small lots: 3 lots are tracked by the ledger but are below the replay's
\* open threshold, 30 and 50 lots are above it
RawLots == {<<3, 40>>, <<30, 40>>, <<50, 50>>}

RawInputs ==
    { Raw("X", op, lot[1], lot[2], m, TARGET_PORTFOLIO_ID) : op \in Sides, lot \in RawLots, m \in Months }
    \cup { Raw("Z", "Compra", 30, 40, m, TARGET_PORTFOLIO_ID) : m \in Months }
    \cup { Raw("X", "Compra", 30, 40, 1, "other") }
    \cup { Raw("X", "Venta", -30, 40, 1, TARGET_PORTFOLIO_ID) }   \* a sale stored with a negative amount

RECURSIVE SeqsUpTo(_, _)
SeqsUpTo(S, n) ==
    IF n = 0 THEN {<<>>}
    ELSE LET shorter == SeqsUpTo(S, n - 1)
         IN  shorter \cup { Append(q, x) : q \in { r \in shorter : Len(r) = n - 1 }, x \in S }

\* what getBatchHistoricalPrices leaves in priceMap[ticker] || 0: a close, or 0
\* (price not found, request failed)
OraclePrices == {0, 45}

\* the state at the top of the month loop: the records are filtered and sorted
MonthlyInit ==
    /\ LedgerInit
    /\ rawTransactions \in SeqsUpTo(RawInputs, MaxTxns)
    /\ allTransactions = AllTransactions(rawTransactions)
    /\ i = 0
    /\ mpc = "loop"
    /\ currentPositions = [s \in Symbols |-> NoHolding]
    /\ priceMap = [s \in Symbols |-> 0]
    /\ history = <<>>
    /\ progress = <<>>
    /\ failedMonths = {}
    /\ cancelRequested = FALSE
    /\ requests = <<>>

monthRange == MonthRange(allTransactions)

\* if (allTransactions.length === 0) return { portfolio, history: [] }
ReturnEmpty ==
    /\ mpc = "loop" /\ i = 0
    /\ allTransactions = <<>>
    /\ mpc' = "returned"
    /\ UNCHANGED <<ledgerVars, cumulativePnLData, requests, cancelRequested, failedMonths, rawTransactions, allTransactions, i, currentPositions, priceMap,
                   history, progress>>

InLoop == mpc = "loop" /\ allTransactions # <<>> /\ i < Len(monthRange)

\* Replayed, carrying the previous month's positions over instead of starting empty
ReplayedFromPrevious == Replay(currentPositions, UpToMonth(allTransactions, monthRange[i + 1]))

\* the replay of the month about to be processed
Replayed == Replay([s \in Symbols |-> NoHolding], UpToMonth(allTransactions, monthRange[i + 1]))

\* onProgress(i + 1, monthRange.length, monthKey)
Reported == Append(progress, <<i + 1, Len(monthRange), monthRange[i + 1]>>)

\* an iteration with no open position: nothing is fetched, nothing is pushed
MonthWithoutPositions ==
    /\ InLoop
    /\ OpenTickers(Replayed) = {}
    /\ progress' = Reported
    /\ currentPositions' = Replayed
    /\ i' = i + 1
    /\ UNCHANGED <<ledgerVars, cumulativePnLData, requests, cancelRequested, failedMonths, rawTransactions, allTransactions, mpc, priceMap, history>>

\* an iteration with open positions, up to await getBatchHistoricalPrices(...)
RequestPrices ==
    /\ InLoop
    /\ OpenTickers(Replayed) # {}
    /\ progress' = Reported
    /\ currentPositions' = Replayed
    /\ requests' = Append(requests,
                          [month   |-> monthRange[i + 1],
                           tickers |-> TickerInfo(Replayed,
                                                  UpToMonth(allTransactions, monthRange[i + 1]))])
    /\ mpc' = "fetch"
    /\ UNCHANGED <<ledgerVars, cumulativePnLData, cancelRequested, failedMonths, rawTransactions,
                   allTransactions, i, priceMap, history>>

\* the gateway's month-end closes, by ticker: 0 where it has none
Quotes == [Symbols -> OraclePrices]

\* priceMap[position.ticker] || 0 after getBatchHistoricalPrices(tickerInfo, ...):
\* the gateway's close for a ticker that was asked for, 0 for any other
getBatchHistoricalPrices(tickers, quotes) ==
    [s \in Symbols |-> IF s \in tickers THEN quotes[s] ELSE 0]

\* what the batch may return for the tickers asked for
BatchResults ==
    { getBatchHistoricalPrices(OpenTickers(currentPositions), quotes) : quotes \in Quotes }

\* the batch returns and some open position has a price: the month is pushed
PushMonth ==
    /\ mpc = "fetch"
    /\ \E prices \in BatchResults :
          /\ MonthlyAssets(currentPositions, prices) # {}
          /\ priceMap' = prices
          /\ history' = Append(history,
                               Snapshot(monthRange[i + 1], MonthlyAssets(currentPositions, prices)))
    /\ i' = i + 1
    /\ mpc' = "loop"
    /\ UNCHANGED <<ledgerVars, cumulativePnLData, requests, cancelRequested, failedMonths, rawTransactions, allTransactions, currentPositions, progress>>

\* SkipMonth, raising instead of going on: the run ends with nothing returned
SkipMonthAborts ==
    /\ mpc = "fetch"
    /\ \E prices \in BatchResults :
          /\ MonthlyAssets(currentPositions, prices) = {}
          /\ priceMap' = prices
    /\ history' = <<>>
    /\ mpc' = "returned"
    /\ UNCHANGED <<ledgerVars, cumulativePnLData, requests, cancelRequested, failedMonths, rawTransactions, allTransactions, i, currentPositions, progress>>

\* the batch returns no usable price: monthlyAssets is empty and the month is skipped
SkipMonth ==
    /\ mpc = "fetch"
    /\ \E prices \in BatchResults :
          /\ MonthlyAssets(currentPositions, prices) = {}
          /\ priceMap' = prices
    /\ i' = i + 1
    /\ mpc' = "loop"
    /\ UNCHANGED <<ledgerVars, cumulativePnLData, requests, cancelRequested, failedMonths, rawTransactions, allTransactions, currentPositions, history, progress>>

\* the request fails (network error, timeout, non-OK response): the failure is
\* caught inside getBatchHistoricalPrices, which returns {}; every priceClose is
\* 0, monthlyAssets stays empty and the month is skipped
GatewayFails ==
    /\ mpc = "fetch"
    /\ priceMap' = [s \in Symbols |-> 0]
    /\ failedMonths' = failedMonths \cup {monthRange[i + 1]}
    /\ i' = i + 1
    /\ mpc' = "loop"
    /\ UNCHANGED <<ledgerVars, cumulativePnLData, requests, cancelRequested, rawTransactions, allTransactions,
                   currentPositions, history, progress>>

\* the loop is over: return { portfolio, history }
ReturnHistory ==
    /\ mpc = "loop" /\ allTransactions # <<>>
    /\ i = Len(monthRange)
    /\ mpc' = "returned"
    /\ UNCHANGED <<ledgerVars, cumulativePnLData, requests, cancelRequested, failedMonths, rawTransactions, allTransactions, i, currentPositions, priceMap,
                   history, progress>>

\* calculateMarkToMarketCumulativePnL once the history is back: the trades are
\* parsed and run through calculatePnL, and the history becomes the series.
\* Nothing in the try block raises on well-formed records (the gateway's
\* failures end inside getBatchHistoricalPrices), so the catch is not entered.
DeliverSeries ==
    /\ mpc = "returned"
    /\ LET trades == parseFirebaseJson(rawTransactions)
       IN  /\ tradesWithPnL' = TradesWithPnL([s \in Symbols |-> Absent], trades)
           /\ positions' = calculatePnL([s \in Symbols |-> Absent], trades)
    /\ cumulativePnLData' = MarkToMarketPoints(history)
    /\ mpc' = "delivered"
    /\ UNCHANGED <<stats, pc, rawTransactions, allTransactions, i, currentPositions, priceMap,
                   history, progress, failedMonths, cancelRequested, requests>>

MonthlyNext ==
    \/ ReturnEmpty
    \/ MonthWithoutPositions
    \/ RequestPrices
    \/ PushMonth
    \/ SkipMonth
    \/ GatewayFails
    \/ ReturnHistory
    \/ DeliverSeries

SpecMonthly == MonthlyInit /\ [][MonthlyNext]_vars

\* the caller gives up while the reconstruction runs.  calculateMonthlyPortfolioHistory
\* takes no signal and the effect that started it returns no cleanup, so the
\* request changes nothing the loop reads.  It is made while a month is in
\* progress, its price batch awaited
CancelRequest ==
    /\ mpc = "fetch"
    /\ ~cancelRequested
    /\ cancelRequested' = TRUE
    /\ UNCHANGED <<ledgerVars, cumulativePnLData, requests, rawTransactions, allTransactions, i, mpc,
                   currentPositions, priceMap, history, progress, failedMonths>>

CancellableNext ==
    \/ MonthlyNext
    \/ CancelRequest

\* the reconstruction with a caller that may give up
SpecCancellable == MonthlyInit /\ [][CancellableNext]_vars

----------------------------------------------------------------------------
(* Properties of the ledger *)

Last(s) == s[Len(s)]

\* the step just taken processed this trade
Applied(trade) ==
    /\ Len(tradesWithPnL') = Len(tradesWithPnL) + 1
    /\ Last(tradesWithPnL') = WithPnL(trade, Last(tradesWithPnL').pnl)

\* the trade of an output entry
TradeOf(t) == [symbol |-> t.symbol, side |-> t.side, quantity |-> t.quantity,
               price |-> t.price, commission |-> t.commission, date |-> t.date]

Flat == [s \in Symbols |-> Absent]

\* C1: after any prefix of any transaction sequence, no instrument stays in the
\* position map with |quantity| < 0.0001.
C1_NoPositionBelowEpsilon ==
    \A s \in Symbols : positions[s].here => ~BelowEpsilon(positions[s].quantity)

\* C2: a Compra applied to a short position records
\* (short avg cost - buy price) * min(buy qty, |short qty|) - commission.
C2_CoverPnLOnCoveredPart ==
    [][\A trade \in TradesOf("Compra") :
          LET pos == positions[trade.symbol]
          IN  (Applied(trade) /\ pos.here /\ pos.quantity < 0 /\ ~IsNaN(pos.avgPrice))
              => Last(tradesWithPnL').pnl =
                    FSub(FMul(FSub(pos.avgPrice, Num(trade.price)),
                              Qty(Min(trade.quantity, Abs(pos.quantity)))),
                         Num(trade.commission))]_vars

\* C3: a Compra larger than the short it meets leaves a long position of the
\* residual quantity whose average cost is the buy price.
C3_ResidualLongAtBuyPrice ==
    [][\A trade \in TradesOf("Compra") :
          LET pos == positions[trade.symbol]
          IN  (Applied(trade) /\ pos.here /\ pos.quantity < 0 /\ trade.quantity > Abs(pos.quantity)
                 /\ ~IsNaN(pos.avgPrice))
              => positions'[trade.symbol] =
                    Pos(trade.quantity - Abs(pos.quantity), Num(trade.price))]_vars

\* C4: a Venta applied to a long position records
\* (sell price - long avg cost) * min(sell qty, long qty) - commission, and a sell
\* quantity in excess of the long leaves a short of the excess at the sell price.
C4_SellLongPnLAndResidualShort ==
    [][\A trade \in TradesOf("Venta") :
          LET pos == positions[trade.symbol]
              qty == Abs(trade.quantity)
          IN  (Applied(trade) /\ pos.here /\ pos.quantity > 0 /\ ~IsNaN(pos.avgPrice))
              => /\ Last(tradesWithPnL').pnl =
                       FSub(FMul(FSub(Num(trade.price), pos.avgPrice),
                                 Qty(Min(qty, pos.quantity))),
                            Num(trade.commission))
                 /\ qty > pos.quantity
                       => positions'[trade.symbol] = Pos(-(qty - pos.quantity), Num(trade.price))]_vars

\* C5: a Cierre applied to an instrument that has a position closes all of it,
\* whatever quantity the Cierre carries: the P&L is taken over the full |shares|
\* held and the instrument is absent afterwards.
C5_CloseClosesEverything ==
    [][\A trade \in TradesOf("Cierre") :
          LET pos == positions[trade.symbol]
          IN  (Applied(trade) /\ pos.here /\ pos.quantity # 0 /\ ~IsNaN(pos.avgPrice))
              => /\ Last(tradesWithPnL').pnl =
                       FSub(FMul(IF pos.quantity > 0
                                 THEN FSub(Num(trade.price), pos.avgPrice)
                                 ELSE FSub(pos.avgPrice, Num(trade.price)),
                                 Qty(Abs(pos.quantity))),
                            Num(trade.commission))
                 /\ positions'[trade.symbol] = Absent]_vars

\* C6: a Cierre for an instrument with no tracked position contributes exactly 0,
\* creates no position, leaves every position unchanged, and the loop goes on.
C6_CloseWithoutPositionIsNoOp ==
    [][\A trade \in TradesOf("Cierre") :
          (Applied(trade) /\ ~positions[trade.symbol].here)
              => /\ Last(tradesWithPnL').pnl = Zero
                 /\ positions' = positions
                 /\ pc' = "run"]_vars

\* C6 witness: a Cierre on X, never traded before, while Z holds a position
C6_Witness ==
    /\ Len(tradesWithPnL) = 2
    /\ tradesWithPnL[1].symbol = "Z" /\ positions["Z"].here
    /\ Last(tradesWithPnL).symbol = "X" /\ Last(tradesWithPnL).side = "Cierre"
    /\ Last(tradesWithPnL).commission = 1
    /\ Last(tradesWithPnL).pnl = Zero
    /\ ~positions["X"].here

\* a long opened by one Compra and closed by a Cierre of the same quantity
OpenedThenClosed ==
    /\ Len(tradesWithPnL) = 2
    /\ tradesWithPnL[1].side = "Compra" /\ tradesWithPnL[1].quantity > 0
    /\ tradesWithPnL[2].side = "Cierre"
    /\ tradesWithPnL[2].symbol = tradesWithPnL[1].symbol
    /\ Abs(tradesWithPnL[2].quantity) = tradesWithPnL[1].quantity

\* (close price - open price) * quantity
GrossGain(open, close) == FMul(Num(close.price - open.price), Qty(open.quantity))

\* C7 as stated: the Cierre's P&L is (p_close - p_open) * q minus the commissions
\* of both transactions, and the position set ends empty.
C7_RealizedNetOfBothCommissions ==
    OpenedThenClosed =>
        /\ tradesWithPnL[2].pnl =
              FSub(GrossGain(tradesWithPnL[1], tradesWithPnL[2]),
                   Num(tradesWithPnL[1].commission + tradesWithPnL[2].commission))
        /\ positions = Flat

\* C7 amended: the Cierre's P&L is (p_close - p_open) * q minus the Cierre's own
\* commission; the Compra's commission is the Compra's own contribution
\* (-commission); the position set ends empty.
C7_RealizedNetOfCloseCommission ==
    OpenedThenClosed =>
        /\ tradesWithPnL[2].pnl =
              FSub(GrossGain(tradesWithPnL[1], tradesWithPnL[2]), Num(tradesWithPnL[2].commission))
        /\ tradesWithPnL[1].pnl = FNeg(Num(tradesWithPnL[1].commission))
        /\ positions = Flat

\* C7 witness: such a round trip where both transactions paid a commission
C7_Witness ==
    /\ OpenedThenClosed
    /\ tradesWithPnL[1].commission = 1 /\ tradesWithPnL[2].commission = 1
    /\ tradesWithPnL[1].symbol = "X" /\ tradesWithPnL[2].price > tradesWithPnL[1].price
    /\ positions = Flat

\* Buy 10 @ 100 (commission 1) then Close 10 @ 150 (commission 1)
Scenario499 ==
    /\ Len(tradesWithPnL) = 2
    /\ TradeOf(tradesWithPnL[1]) = Trade("Z", "Compra", Shares(10), 100, 1)
    /\ TradeOf(tradesWithPnL[2]) = Trade("Z", "Cierre", Shares(10), 150, 1)

\* C8: for Buy 10 @ 100 (commission 1) then Close 10 @ 150 (commission 1) the
\* Close realizes 499 and calculateStats returns totalPnL 499, winningTrades 1,
\* winRate 100.
C8_Scenario499 ==
    (Scenario499 /\ pc = "done") =>
        /\ tradesWithPnL[2].pnl = Num(499)
        /\ stats.totalPnL = Num(499)
        /\ stats.winningTrades = 1
        /\ stats.winRate = Num(100)

\* C8 witness: calculateStats has run on that scenario
C8_Witness == Scenario499 /\ pc = "done" /\ stats.totalTrades = 1

ZeroStats ==
    [totalPnL |-> Zero, totalTrades |-> 0, winningTrades |-> 0, losingTrades |-> 0,
     winRate |-> Zero, averageWin |-> Zero, averageLoss |-> Zero,
     largestWin |-> Zero, largestLoss |-> Zero, averageTradePnL |-> Zero]

NothingCounted == \A k \in 1 .. Len(tradesWithPnL) : ~IsClosingTrade(tradesWithPnL[k])

\* C16: calculateStats over an empty trade list, or over a list none of whose
\* outcomes is counted, returns every field equal to 0: no NaN, no division by
\* zero.
C16_NoEventsAllZeroStats ==
    (pc \in {"done", "charted"} /\ NothingCounted) => stats = ZeroStats

\* C16 witness: statistics of a non-empty list with a Close among its trades and
\* nothing counted
C16_Witness ==
    /\ pc = "done" /\ NothingCounted
    /\ \E k \in 1 .. Len(tradesWithPnL) : tradesWithPnL[k].side = "Cierre"
    /\ stats = ZeroStats

\* the trades of the first k outcomes
TradesBefore(k) == [j \in 1 .. k - 1 |-> TradeOf(tradesWithPnL[j])]

\* outcome k closed, fully or partly, a position that existed
Realizes(k) ==
    LET trade == TradeOf(tradesWithPnL[k])
        pos   == calculatePnL(Flat, TradesBefore(k))[trade.symbol]
    IN  Branch(pos, trade) \in {"CompraOnShort", "CierreOnPosition", "VentaOnLong"}

\* the realized events with |P&L| > 0.01
NonNegligible ==
    { k \in 1 .. Len(tradesWithPnL) :
        Realizes(k) /\ FGt(FAbs(tradesWithPnL[k].pnl), Frac(1, 100)) }

RECURSIVE SumAt(_)
SumAt(ks) ==
    IF ks = {} THEN Zero
    ELSE LET k == CHOOSE x \in ks : TRUE
         IN  FAdd(tradesWithPnL[k].pnl, SumAt(ks \ {k}))

\* C17: the statistics count exactly the realized events whose P&L exceeds 0.01
\* in absolute value, whatever the kind of the closing transaction and whatever
\* the size of the P&L, and totalPnL is their sum.
C17_StatsOverNonNegligibleEvents ==
    pc \in {"done", "charted"} =>
        /\ stats.totalTrades = Cardinality(NonNegligible)
        /\ stats.totalPnL = SumAt(NonNegligible)

\* C19: calculateCumulativePnL is a running sum in input order: there is one
\* point per trade, the k-th point's value is the sum of the P&L of the first k
\* trades, and the last point's value is the total P&L of the list.
C19_RunningSumOfRealizedPnL ==
    pc = "charted" =>
        /\ Len(cumulativePnLData) = Len(tradesWithPnL)
        /\ \A k \in 1 .. Len(tradesWithPnL) :
              cumulativePnLData[k].value = SumPnL(SubSeq(tradesWithPnL, 1, k))
        /\ tradesWithPnL # <<>> =>
              Last(cumulativePnLData).value = SumPnL(tradesWithPnL)

\* C19 witness: the series of three trades, the last two with a P&L of their own,
\* so that the last point differs from the last trade's P&L
C19_Witness ==
    /\ pc = "charted" /\ Len(tradesWithPnL) = 3
    /\ ~IsNaN(SumPnL(tradesWithPnL))
    /\ tradesWithPnL[2].pnl # Zero /\ tradesWithPnL[3].pnl # Zero
    /\ cumulativePnLData[3].value = FAdd(cumulativePnLData[2].value, tradesWithPnL[3].pnl)
    /\ cumulativePnLData[3].value # tradesWithPnL[3].pnl

\* the trade opens or adds to a position on its own side
OnOwnSide(pos, trade) ==
    \/ trade.side = "Compra" /\ OrEmpty(pos).quantity >= 0
    \/ trade.side = "Venta" /\ OrEmpty(pos).quantity <= 0

\* C24: a Compra on a flat or long position, and a Venta on a flat or short one,
\* realizes nothing: its P&L is -commission, |shares| grows by the trade's
\* quantity, and the new average cost is the quantity-weighted average of the
\* old cost basis and the new lot, which for a flat instrument is the trade's
\* price.
C24_OpenOrAddOnOwnSide ==
    [][\A trade \in TradesOf("Compra") \cup TradesOf("Venta") :
          LET old == OrEmpty(positions[trade.symbol])
              new == positions'[trade.symbol]
              qty == Abs(trade.quantity)
          IN  (Applied(trade) /\ OnOwnSide(positions[trade.symbol], trade))
              => /\ Last(tradesWithPnL').pnl = FNeg(Num(trade.commission))
                 /\ new.here
                 /\ Abs(new.quantity) = Abs(old.quantity) + qty
                 /\ new.avgPrice =
                       IF old.quantity = 0 THEN Num(trade.price)
                       ELSE FDiv(FAdd(FMul(Num(Abs(old.quantity)), old.avgPrice),
                                      Num(qty * trade.price)),
                                 Num(Abs(old.quantity) + qty))]_vars

RECURSIVE NetQuantity(_)
\* the signed quantities of a trade list added up
NetQuantity(trades) ==
    IF trades = <<>> THEN 0 ELSE Head(trades).quantity + NetQuantity(Tail(trades))

RECURSIVE Proceeds(_)
\* sell proceeds minus buy cost of a trade list
Proceeds(trades) ==
    IF trades = <<>> THEN Zero
    ELSE LET t      == Head(trades)
             amount == FMul(Qty(Abs(t.quantity)), Num(t.price))
         IN  FAdd(IF t.side = "Venta" THEN amount ELSE FNeg(amount), Proceeds(Tail(trades)))

\* the list so far is zero-commission Compra and Venta trades of one instrument
\* that starts and ends flat
FlatRoundTrip(symbol) ==
    /\ tradesWithPnL # <<>>
    /\ \A k \in 1 .. Len(tradesWithPnL) :
          /\ tradesWithPnL[k].symbol = symbol
          /\ tradesWithPnL[k].side \in {"Compra", "Venta"}
          /\ tradesWithPnL[k].commission = 0
    /\ NetQuantity(tradesWithPnL) = 0
    /\ ~positions[symbol].here

\* C28: realized P&L is conserved: over a zero-commission sequence of Compra and
\* Venta trades of one instrument that starts and ends flat, the P&L values add
\* up to the sell proceeds minus the buy cost.
C28_RealizedPnLConserved ==
    \A symbol \in Symbols :
        FlatRoundTrip(symbol) => SumPnL(tradesWithPnL) = Proceeds(tradesWithPnL)

RECURSIVE EntriesOf(_, _)
\* the entries of one instrument, in order
EntriesOf(entries, symbol) ==
    IF entries = <<>> THEN <<>>
    ELSE (IF Head(entries).symbol = symbol THEN <<Head(entries)>> ELSE <<>>)
         \o EntriesOf(Tail(entries), symbol)

\* C29: instruments are accounted independently: after every loop iteration the position of every
\* instrument and the P&L of each of its trades are what the ledger gives on
\* that instrument's trades alone, and every output entry is an input trade
\* with its fields unchanged plus the pnl.
C29_InstrumentsIndependent ==
    pc = "run" =>
        /\ \A symbol \in Symbols :
              LET own == EntriesOf(tradesWithPnL, symbol)
                  alone == [k \in 1 .. Len(own) |-> TradeOf(own[k])]
              IN  /\ own = TradesWithPnL(Flat, alone)
                  /\ positions[symbol] = calculatePnL(Flat, alone)[symbol]
        /\ \A k \in 1 .. Len(tradesWithPnL) : TradeOf(tradesWithPnL[k]) \in TradeInputs

\* an X trade, a Z trade and another X trade, both instruments still held
C29_Witness ==
    /\ Len(tradesWithPnL) = 3
    /\ tradesWithPnL[1].symbol = "X" /\ tradesWithPnL[2].symbol = "Z"
    /\ tradesWithPnL[3].symbol = "X" /\ tradesWithPnL[3].side = "Cierre"
    /\ positions["X"].here /\ positions["Z"].here

RECURSIVE SumBuckets(_, _)
\* one field of the buckets added up: "pnl" or "trades"
SumBuckets(buckets, field) ==
    IF buckets = <<>> THEN (IF field = "pnl" THEN Zero ELSE 0)
    ELSE IF field = "pnl" THEN FAdd(Head(buckets).pnl, SumBuckets(Tail(buckets), field))
    ELSE Head(buckets).trades + SumBuckets(Tail(buckets), field)

\* C30: the monthly buckets reconcile with the statistics of the same trade list:
\* the month keys are distinct and strictly ascending, the buckets' pnl adds up
\* to totalPnL, their trade counts add up to totalTrades, and totalTrades is
\* winningTrades + losingTrades.
C30_BucketsReconcileWithStats ==
    pc \in {"done", "charted"} =>
        LET buckets == calculateMonthlyPerformance(tradesWithPnL)
        IN  /\ \A a, b \in 1 .. Len(buckets) : a < b => KeyBefore(buckets[a].month, buckets[b].month)
            /\ SumBuckets(buckets, "pnl") = stats.totalPnL
            /\ SumBuckets(buckets, "trades") = stats.totalTrades
            /\ stats.totalTrades = stats.winningTrades + stats.losingTrades

----------------------------------------------------------------------------
(* Properties of the monthly reconstruction *)

\* the months whose iteration is complete
MonthsDone == { monthRange[k] : k \in 1 .. i }

HasSnapshot(month) == \E k \in 1 .. Len(history) : history[k].month = month

\* C9 as stated: the returned history has exactly one snapshot for every month
\* from the month of the earliest target-account transaction through the current
\* month, whatever is open and whatever the oracle returns.
C9_OneSnapshotPerMonth ==
    (mpc = "returned" /\ allTransactions # <<>>) =>
        /\ Len(history) = Len(monthRange)
        /\ \A k \in 1 .. Len(history) : history[k].month = monthRange[k]

\* C9 amended: the history holds at most one snapshot per month of that range, in
\* ascending month order, and a month has a snapshot exactly when at least one
\* position open at its end got a price from the oracle; a month with no open
\* position, or with no price found, is omitted.
C9_SnapshotForPricedMonthsOnly ==
    allTransactions # <<>> =>
        /\ \A k \in 1 .. Len(history) : history[k].month \in MonthsDone /\ history[k].assets # {}
        /\ \A k, l \in 1 .. Len(history) : k < l => history[k].month < history[l].month
        /\ (mpc = "loop" /\ i >= 1) =>
              (HasSnapshot(monthRange[i]) <=>
                  \E s \in OpenTickers(currentPositions) : priceMap[s] > 0)
        /\ (mpc = "loop" /\ i >= 1 /\ OpenTickers(currentPositions) = {}) =>
              ~HasSnapshot(monthRange[i])

\* C9 witness: a returned history of two months, the first omitted for want of a
\* price, the second present
C9_Witness ==
    /\ mpc = "returned" /\ allTransactions # <<>>
    /\ Len(monthRange) = 2
    /\ Len(history) = 1 /\ history[1].month = monthRange[2]
    /\ OpenTickers(Replay([s \in Symbols |-> NoHolding], UpToMonth(allTransactions, monthRange[1]))) # {}

\* the month whose replay currentPositions holds
ReplayedMonth == IF mpc = "fetch" THEN monthRange[i + 1] ELSE monthRange[i]

\* calculatePnL's positions after the same records up to the cutoff
LedgerAt(month) ==
    calculatePnL([s \in Symbols |-> Absent], parseFirebaseJson(UpToMonth(rawTransactions, month)))

\* C10: for every month-end cutoff the replay and the ledger hold the same
\* signed share count for every instrument, the same average cost wherever shares
\* are held, and agree on which instruments hold a position.
C10_ReplayEqualsLedger ==
    (allTransactions # <<>> /\ (mpc = "fetch" \/ i >= 1)) =>
        \A s \in Symbols :
            LET held   == currentPositions[s]
                ledger == LedgerAt(ReplayedMonth)[s]
            IN  /\ held.shares = ledger.quantity
                /\ held.shares # 0 <=> ledger.here
                /\ held.shares # 0 => AvgPrice(held) = ledger.avgPrice

\* the assets of the month's snapshot when the gateway holds these closes
MonthEndAssets(held, quotes) ==
    MonthlyAssets(held, getBatchHistoricalPrices(OpenTickers(held), quotes))

Appears(ticker, assets) == \E a \in assets : a.asset = ticker

\* C11: an instrument is in the month's snapshot exactly when its replayed share
\* count is not below 0.0001 in absolute value and the gateway has a price for
\* it for that month.
C11_InSnapshotIffHeldAndPriced ==
    (allTransactions # <<>> /\ (mpc = "fetch" \/ i >= 1)) =>
        \A quotes \in Quotes : \A s \in Symbols :
            Appears(s, MonthEndAssets(currentPositions, quotes)) <=>
                (~BelowEpsilon(currentPositions[s].shares) /\ quotes[s] > 0)

\* the replay of a month, from empty positions
ReplayOf(month) == Replay([s \in Symbols |-> NoHolding], UpToMonth(allTransactions, month))

\* the batch for the month being fetched came back without a price for an open instrument
PriceMissing == mpc = "fetch" /\ \E s \in OpenTickers(currentPositions) : priceMap'[s] = 0

\* C12: a missing price never aborts the run.  When the batch of month m comes
\* back without a price for an open instrument, the loop goes on to the next
\* month, that instrument is left out of m's result, m is omitted when nothing
\* else was priced, the snapshots of earlier months stay as they were, and m's
\* own snapshot is a function of m's replay and m's prices alone (so no other
\* month's lookup changes it).
C12_MissingPriceNeverAborts ==
    [][PriceMissing =>
            LET month  == monthRange[i + 1]
                assets == MonthlyAssets(ReplayOf(month), priceMap')
            IN  /\ mpc' = "loop" /\ i' = i + 1
                /\ \A s \in Symbols : priceMap'[s] = 0 => ~Appears(s, assets)
                /\ assets = {} => history' = history
                /\ assets # {} => history' = Append(history, Snapshot(month, assets))]_vars

\* C12 witness: a returned run of two months whose first month was omitted for a
\* missing price of its only open instrument, and whose second month has its
\* snapshot with X left out for a missing price and Z in
C12_Witness ==
    /\ mpc = "returned" /\ allTransactions # <<>>
    /\ Len(monthRange) = 2
    /\ OpenTickers(ReplayOf(monthRange[1])) # {}
    /\ OpenTickers(currentPositions) = {"X", "Z"}
    /\ priceMap["X"] = 0 /\ priceMap["Z"] > 0
    /\ Len(history) = 1
    /\ history[1] = Snapshot(monthRange[2],
                             {MonthlyAsset("Z", currentPositions["Z"], priceMap["Z"])})

\* C14: the progress callback is invoked once per month, in month order, with
\* (k, total, month label) for k = 1 .. total, and the invocation for month k
\* comes after month k has been processed, so that the months reported never
\* exceed the months completed.
C14_ProgressAfterEachMonth ==
    allTransactions # <<>> =>
        /\ \A k \in 1 .. Len(progress) : progress[k] = <<k, Len(monthRange), monthRange[k]>>
        /\ Len(progress) <= i
        /\ mpc \in {"returned", "delivered"} => Len(progress) = Len(monthRange)

\* the records dated after month m and up to month n
Between(txns, m, n) ==
    SelectSeq(txns, LAMBDA t : MonthOf(t.created_time) > m /\ MonthOf(t.created_time) <= n)

\* the position in monthRange of the month whose replay currentPositions holds
ReplayedIndex == IF mpc = "fetch" THEN i + 1 ELSE i

\* C15: every month's replay starts from an empty position set, and for
\* consecutive months m and m+1 of the range the replay for m+1 passes through
\* the state the replay for m ends in: it is that state followed by the records
\* of month m+1.  So an instrument closed at the end of m and untouched in m+1
\* is closed (absent from the snapshot) in both.
C15_ReplayPrefixAgreement ==
    (allTransactions # <<>> /\ ReplayedIndex >= 1) =>
        LET n == monthRange[ReplayedIndex]
        IN  /\ currentPositions = ReplayOf(n)
            /\ ReplayedIndex >= 2 =>
                  LET m      == monthRange[ReplayedIndex - 1]
                      before == ReplayOf(m)
                      rest   == Between(allTransactions, m, n)
                  IN  /\ UpToMonth(allTransactions, n) = UpToMonth(allTransactions, m) \o rest
                      /\ currentPositions = Replay(before, rest)
                      /\ \A s \in Symbols :
                            (~IsOpen(before[s]) /\ \A r \in 1 .. Len(rest) : rest[r].ticker # s)
                                => ~IsOpen(currentPositions[s])

\* C15 witness: both months of a two-month range have been replayed; X was
\* opened and closed in the first month and is closed in both replays
C15_Witness ==
    /\ allTransactions # <<>> /\ Len(monthRange) = 2 /\ i = 2
    /\ Len(allTransactions) = 2
    /\ \A k \in 1 .. 2 :
          allTransactions[k].ticker = "X" /\ allTransactions[k].created_time = monthRange[1]
    /\ allTransactions[1].operation = "Compra" /\ allTransactions[1].amount = 30
    /\ allTransactions[2].operation = "Venta" /\ allTransactions[2].amount = 30
    /\ ReplayOf(monthRange[1])["X"].here /\ ~IsOpen(ReplayOf(monthRange[1])["X"])
    /\ currentPositions = ReplayOf(monthRange[1])

----------------------------------------------------------------------------
(* Properties of the delivered series *)

Values(points) == [k \in 1 .. Len(points) |-> points[k].value]

\* the realized-only series over all parsed trades
RealizedOnlySeries ==
    calculateCumulativePnL(TradesWithPnL([s \in Symbols |-> Absent],
                                         parseFirebaseJson(rawTransactions)))

\* C13: when a gateway request failed for some month, the series handed to the
\* caller is the complete realized-only series over all parsed trades, never a
\* mark-to-market series lacking the months whose request failed.
C13_FallbackOnGatewayFailure ==
    (mpc = "delivered" /\ failedMonths # {}) =>
        Values(cumulativePnLData) = Values(RealizedOnlySeries)

\* C18: the mark-to-market series has one point per snapshot of the history, in
\* ascending month order; each point's value is that snapshot's portfolio_pl
\* alone, neither accumulated nor increased by realized P&L, and its date is the
\* last day of the snapshot's month.
C18_OnePointPerSnapshot ==
    mpc = "delivered" =>
        /\ Len(cumulativePnLData) = Len(history)
        /\ \A k \in 1 .. Len(history) :
              LET month == history[k].month
                  days  == <<31, 29, 31, 30, 31, 30, 31, 31, 30, 31, 30, 31>>
              IN  /\ cumulativePnLData[k].value = history[k].portfolio_pl
                  /\ cumulativePnLData[k].date = <<month, days[month], 2024>>
        /\ \A k, l \in 1 .. Len(cumulativePnLData) :
              k < l => cumulativePnLData[k].date[1] < cumulativePnLData[l].date[1]

\* C18 witness: a delivered series of two points, each with a non-zero value
C18_Witness ==
    /\ mpc = "delivered"
    /\ Len(cumulativePnLData) = 2
    /\ \A k \in 1 .. 2 : cumulativePnLData[k].value # Zero
    /\ Values(cumulativePnLData) = <<history[1].portfolio_pl, history[2].portfolio_pl>>

\* the records of the target account among the input
Matching == { k \in 1 .. Len(rawTransactions) : rawTransactions[k].id_portfolio = TARGET_PORTFOLIO_ID }

\* C20: parseFirebaseJson outputs one Transaction for each input record of the
\* target account and none for any other record: the output is as long as the
\* matching records are many, and every Transaction occurs in it as often as
\* matching records convert to it.
C20_OneTransactionPerMatchingRecord ==
    mpc = "delivered" =>
        /\ Len(tradesWithPnL) = Cardinality(Matching)
        /\ \A j \in 1 .. Len(tradesWithPnL) :
              LET trade == TradeOf(tradesWithPnL[j])
              IN  Cardinality({ l \in 1 .. Len(tradesWithPnL) : TradeOf(tradesWithPnL[l]) = trade })
                    = Cardinality({ k \in Matching : ParsedTrade(rawTransactions[k]) = trade })
        /\ \A k \in Matching :
              \E j \in 1 .. Len(tradesWithPnL) :
                  TradeOf(tradesWithPnL[j]) = ParsedTrade(rawTransactions[k])

\* C20 witness: two input records, one of another account, and one Transaction out
C20_Witness ==
    /\ mpc = "delivered"
    /\ Len(rawTransactions) = 2 /\ Cardinality(Matching) = 1
    /\ Len(tradesWithPnL) = 1
    /\ \E k \in Matching : TradeOf(tradesWithPnL[1]) = ParsedTrade(rawTransactions[k])

\* C21: in parseFirebaseJson's output every Compra has quantity >= 0 and every
\* Venta or Cierre has quantity <= 0, and the quantity's magnitude is the
\* magnitude of the source amount, whatever the amount's sign.
C21_QuantitySignFromOperation ==
    mpc = "delivered" =>
        /\ \A j \in 1 .. Len(tradesWithPnL) :
              LET t == tradesWithPnL[j]
              IN  /\ t.side = "Compra" => t.quantity >= 0
                  /\ t.side \in {"Venta", "Cierre"} => t.quantity <= 0
                  /\ \E k \in Matching :
                        /\ rawTransactions[k].ticker = t.symbol
                        /\ rawTransactions[k].operation = t.side
                        /\ rawTransactions[k].price = t.price
                        /\ Abs(rawTransactions[k].amount) = Abs(t.quantity)
        /\ \A k \in Matching :
              \E j \in 1 .. Len(tradesWithPnL) :
                  /\ tradesWithPnL[j].symbol = rawTransactions[k].ticker
                  /\ tradesWithPnL[j].side = rawTransactions[k].operation
                  /\ Abs(tradesWithPnL[j].quantity) = Abs(rawTransactions[k].amount)

\* C21 witness: a Venta stored with amount -30 comes out with quantity -30
C21_Witness ==
    /\ mpc = "delivered"
    /\ Len(rawTransactions) = 1
    /\ rawTransactions[1].operation = "Venta" /\ rawTransactions[1].amount = -30
    /\ Len(tradesWithPnL) = 1
    /\ tradesWithPnL[1].side = "Venta" /\ tradesWithPnL[1].quantity = -30

RECURSIVE InTimeOrder(_, _)
\* the records of the times 1 .. time, time by time, each time's records in the
\* order they have in txns
InTimeOrder(txns, time) ==
    IF time = 0 THEN <<>>
    ELSE InTimeOrder(txns, time - 1) \o SelectSeq(txns, LAMBDA t : t.created_time = time)

\* the matching records in input order
MatchingRecords == SelectSeq(rawTransactions, LAMBDA t : t.id_portfolio = TARGET_PORTFOLIO_ID)

\* C22: parseFirebaseJson's output is in non-decreasing time order, and
\* transactions of equal time keep the order they had in the input: the k-th
\* output is the conversion of the k-th matching record when the records are
\* taken time by time, each time's records in input order.
C22_SortedByTimeStable ==
    mpc = "delivered" =>
        LET expected == InTimeOrder(MatchingRecords, MaxMonths)
        IN  /\ Len(tradesWithPnL) = Len(expected)
            /\ \A k \in 1 .. Len(expected) : TradeOf(tradesWithPnL[k]) = ParsedTrade(expected[k])

\* C22 witness: two different records of one time come out in input order
C22_Witness ==
    /\ mpc = "delivered"
    /\ Len(rawTransactions) = 2 /\ Len(tradesWithPnL) = 2
    /\ rawTransactions[1].created_time = rawTransactions[2].created_time
    /\ ParsedTrade(rawTransactions[1]) # ParsedTrade(rawTransactions[2])
    /\ \A k \in 1 .. 2 : TradeOf(tradesWithPnL[k]) = ParsedTrade(rawTransactions[k])

\* a month's iteration begins: its progress report is made
MonthStarts == Len(progress') > Len(progress)

\* C23: a cancellation requested while a month is in progress takes effect
\* before the next month starts, and what the cancelled run hands back is a
\* prefix of the completed months' snapshots or nothing.
C23_CancelBetweenMonths ==
    [][cancelRequested => ~MonthStarts]_vars



\* C26: months are processed one after the other.  The gateway is asked at most
\* once per month, in month order; a request is outstanding only for the month
\* in progress, every earlier request having been answered and consumed before
\* the next is issued; and a request names each open instrument's ticker once.
C26_OneRequestAtATime ==
    allTransactions # <<>> =>
        /\ \A a, b \in 1 .. Len(requests) : a < b => requests[a].month < requests[b].month
        /\ \A a \in 1 .. Len(requests) :
              LET r == requests[a]
              IN  /\ r.month \in MonthsDone \/ (mpc = "fetch" /\ a = Len(requests))
                  /\ \A k, l \in 1 .. Len(r.tickers) : r.tickers[k] = r.tickers[l] => k = l
        /\ mpc = "fetch" =>
              /\ requests # <<>>
              /\ Last(requests).month = monthRange[i + 1]
              /\ { Last(requests).tickers[k] : k \in 1 .. Len(Last(requests).tickers) }
                    = OpenTickers(ReplayOf(monthRange[i + 1]))

\* C26 witness: the second request of a run is outstanding, the first answered;
\* it names X once although X was traded twice
C26_Witness ==
    /\ mpc = "fetch" /\ i = 1
    /\ Len(requests) = 2
    /\ requests[2].tickers = <<"X">>
    /\ Len(allTransactions) = 2
    /\ \A k \in 1 .. 2 : allTransactions[k].ticker = "X"

\* the snapshot of the month just completed, when it has one
LatestSnapshot == Last(history)

\* C25: in every snapshot each listed instrument's unrealized P&L is
\* (close - avg cost) * |shares| when the position is long and
\* (avg cost - close) * |shares| when it is short, its value is |shares| * close,
\* and portfolio_pl and portfolio_value are the sums over the listed instruments.
C25_SnapshotValueAndPnL ==
    (allTransactions # <<>> /\ mpc = "loop" /\ i >= 1 /\ HasSnapshot(monthRange[i])) =>
        LET snap == LatestSnapshot
        IN  /\ snap.month = monthRange[i]
            /\ \A a \in snap.assets :
                  LET position == currentPositions[a.asset]
                      shares   == Qty(Abs(position.shares))
                      close    == Num(a.price_close)
                  IN  /\ a.price_close = priceMap[a.asset]
                      /\ a.avg_price = AvgPrice(position)
                      /\ a.value = FMul(shares, close)
                      /\ position.shares > 0 =>
                            a.profit_loss = FMul(FSub(close, a.avg_price), shares)
                      /\ position.shares < 0 =>
                            a.profit_loss = FMul(FSub(a.avg_price, close), shares)
            /\ snap.portfolio_value = SumOver(snap.assets, "value")
            /\ snap.portfolio_pl = SumOver(snap.assets, "profit_loss")

\* C27: in the monthly replay the side flag follows the sign of the share count:
\* every position counted as open has isShort exactly when its shares are
\* negative.
C27_SideFlagFollowsSign ==
    (allTransactions # <<>> /\ ReplayedIndex >= 1) =>
        \A s \in Symbols :
            IsOpen(currentPositions[s]) =>
                (currentPositions[s].isShort <=> currentPositions[s].shares < 0)

====
